---- MODULE Spec2Model ----
(***************************************************************************)
(* Model of fpga.chart.py: a netdata python.d collector that reads FPGA    *)
(* statistics from swarm64da.get_fpga_stats() and samples temperature and  *)
(* power with a vendor command line tool in two background threads.        *)
(***************************************************************************)
EXTENDS Integers, Sequences, FiniteSets, TLC

(* ----------------------------- bounds ---------------------------------- *)
\* largest device count returned by SELECT COUNT(*) at setup
MaxDevices == 2
\* largest number of rows in one result set of the stats query
MaxRows == 2
\* raw device ids the database may report are the strings "0" .. "MaxRawId"
MaxRawId == 2
\* connections psycopg2.connect may hand out in one run
MaxHandles == 2

(* --------------------------- Python values ----------------------------- *)
\* A Python value: an int, a str of decimal digits followed by ws blanks,
\* or None.  One record shape, so that any two values can be compared.
PyInt(n) == [type |-> "int", v |-> n, ws |-> 0]
PyStr(n, w) == [type |-> "str", v |-> n, ws |-> w]
PyNone == [type |-> "NoneType", v |-> 0, ws |-> 0]

(* ------------------------------ templates ------------------------------ *)
\* DEFINITIONS[metric]['lines'][k][0], in order
DEFINITIONS ==
  [ bytes     |-> << "host_to_fpga_byte_count", "fpga_to_host_byte_count" >>,
    jobs      |-> << "compression_job_count", "decompression_job_count",
                     "decompression_and_filter_job_count", "filter_job_count" >>,
    max       |-> << "max_outstanding_compression_jobs",
                     "max_outstanding_decompression_and_filter_jobs",
                     "max_outstanding_filter_jobs" >>,
    pu_stats  |-> << "current_pu_utilised_comp_percent",
                     "current_pu_utilised_decomp_percent",
                     "avg_pu_utilised_comp_percent",
                     "avg_pu_utilised_decomp_percent",
                     "max_pu_utilised_comp", "max_pu_utilised_decomp" >>,
    ddr_stats |-> << "avg_memory_write_transactions_percent",
                     "avg_memory_read_transactions_percent",
                     "avg_memory_write_denied_percent",
                     "avg_memory_read_denied_percent" >>,
    temps     |-> << "temperature" >>,
    powers    |-> << "power" >> ]

\* self.metrics as first assigned in __init__
BaseMetrics == << "bytes", "jobs", "max" >>

\* 'fpga-' + str(i)
DeviceName(i) == "fpga-" \o ToString(i)

\* name + '-' + suffix, for component names and series keys alike
Join(name, suffix) == name \o "-" \o suffix

Range(s) == { s[i] : i \in 1..Len(s) }

(* ------------------------------ registry ------------------------------- *)
\* the keys one call of init_fpga_metrics appends: name-field per template line
PrefixedLines(component, name) ==
  [ k \in 1..Len(DEFINITIONS[component]) |-> Join(name, DEFINITIONS[component][k]) ]

\* init_fpga_metrics(component, name) on the registry reg = [order, keys]
init_fpga_metrics(component, name, reg) ==
  [ order |-> Append(reg.order, Join(name, component)),
    keys  |-> reg.keys \o PrefixedLines(component, name) ]

\* for metric in metrics: self.init_fpga_metrics(metric, name)
RECURSIVE RegisterMetrics(_, _, _)
RegisterMetrics(metrics, name, reg) ==
  IF metrics = << >> THEN reg
  ELSE RegisterMetrics(Tail(metrics), name,
                       init_fpga_metrics(Head(metrics), name, reg))

\* the two self.metrics.extend calls in the body of the device loop: they run
\* in every iteration on the same list, which therefore grows per device
ExtendMetrics(metrics, pu, tp) ==
  metrics \o (IF pu THEN << "pu_stats", "ddr_stats" >> ELSE << >>)
          \o (IF tp THEN << "temps", "powers" >> ELSE << >>)

\* for i in range(self.fpga_count): extend self.metrics, register them all
RECURSIVE DeviceLoop(_, _, _, _, _, _)
DeviceLoop(i, n, metrics, pu, tp, reg) ==
  IF i >= n THEN reg
  ELSE LET m == ExtendMetrics(metrics, pu, tp)
       IN DeviceLoop(i + 1, n, m, pu, tp, RegisterMetrics(m, DeviceName(i), reg))

\* the registry part of __init__: totals first when fpga_count > 1
Registry(n, pu, tp) ==
  LET empty == [ order |-> << >>, keys |-> << >> ]
      tot   == IF n > 1 THEN RegisterMetrics(BaseMetrics, "fpga-total", empty)
               ELSE empty
  IN DeviceLoop(0, n, BaseMetrics, pu, tp, tot)

\* for key in self.keys: self.default_data[key] = 0
DefaultData(ks) == [ k \in Range(ks) |-> PyInt(0) ]

(* ------------------------------- state --------------------------------- *)
VARIABLES
  \* configuration and registry, fixed by __init__
  fpga_count, pu_ddr_stats_enable, check_temp_power, order, keys, default_data,
  \* self.conn (0 is None, k > 0 the k-th connection opened) and the number of
  \* connections opened so far
  conn, opened,
  \* the Identity Map and its counter
  fpga_mapping, next_fpga,
  \* the per-device reading arrays; temp[i + 1] is self.temp[i]
  temp, power,
  \* get_data: position, loop index of set_fpga_os_status, the local data and
  \* conn, the rows and column names fetched, and how the call ended
  pc, os_idx, data, cycle_conn, result, outcome,
  \* which vendor tool __init__ found ("intel", "xilinx" or "none") and
  \* self.temp_power_update_interval
  vendor, temp_power_update_interval,
  \* the two sampling threads, indexed by "temp" and "power": position and idx
  loop_pc, loop_idx,
  \* one pass of the time_lag wrapper: position, after - before, sleep argument
  lag_pc, lag_elapsed, lag_wait,
  \* one call of a probe: the function, the command's exit status and output,
  \* position and return value
  probe_func, probe_exit, probe_out, probe_pc, probe_ret

cfg_vars == << fpga_count, pu_ddr_stats_enable, check_temp_power, order, keys, vendor,
              temp_power_update_interval >>
loop_vars == << loop_pc, loop_idx >>
lag_vars == << lag_pc, lag_elapsed, lag_wait >>
probe_vars == << probe_func, probe_exit, probe_out, probe_pc, probe_ret >>
\* what a step of get_data never touches
other_vars == << loop_vars, lag_vars, probe_vars >>
slot_vars == << temp, power >>
map_vars == << fpga_mapping, next_fpga >>

(* ---------------------------- result sets ------------------------------ *)
\* a column of a total-eligible template, and a percent-named column of an
\* extended-statistics template
JobColumn == "compression_job_count"
PercentColumn == "avg_memory_write_transactions_percent"

\* cursor.description of the stats query: the identifier column may be missing,
\* and so may any data column
Descriptions ==
  { idc \o dc : idc \in { << >>, << "fpga_id" >> },
                dc \in { << >>, << JobColumn >>, << PercentColumn >>,
                         << JobColumn, PercentColumn >> } }

RawIds == { PyStr(i, 0) : i \in 0..MaxRawId }

\* the value row r reports in a data column: 100, 50, 25, ... jobs and
\* 80, 60, 40, ... in any other column, so that no two rows of a result set
\* agree
CellValue(col, r) ==
  IF col = JobColumn THEN PyInt(100 \div (2 ^ (r - 1))) ELSE PyInt(100 - 20 * r)

\* the rows of a result set with this description whose r-th row carries the
\* raw id ids[r]
RowsOf(desc, ids) ==
  [ r \in 1..Len(ids) |->
      [ i \in 1..Len(desc) |->
          IF desc[i] = "fpga_id" THEN ids[r] ELSE CellValue(desc[i], r) ] ]

\* what cursor.description and cursor.fetchall() may hold in one cycle: up to
\* MaxRows rows, of any raw ids in any order, repeated ids included
ResultSets ==
  UNION { { [ description |-> desc, rows |-> RowsOf(desc, ids) ] :
              ids \in UNION { [ 1..n -> RawIds ] : n \in 0..MaxRows } } :
          desc \in Descriptions }

EmptyResult == [ description |-> << >>, rows |-> << >> ]

(* --------------------------- row processing ---------------------------- *)
\* columns[name]: the loop over cursor.description keeps the last index of a name
ColumnIndex(desc, name) ==
  CHOOSE i \in 1..Len(desc) :
    desc[i] = name /\ \A j \in 1..Len(desc) : desc[j] = name => j <= i

\* row[columns['fpga_id']] if 'fpga_id' in columns else '0'
RowFpgaId(desc, row) ==
  IF "fpga_id" \in Range(desc) THEN row[ColumnIndex(desc, "fpga_id")]
  ELSE PyStr(0, 0)

\* Resolve with the counter left alone: every new id would be named fpga-0
ResolveNoIncrement(fpga_id, st) ==
  IF fpga_id \notin DOMAIN st.mapping
  THEN [ st EXCEPT !.mapping = st.mapping @@ (fpga_id :> DeviceName(st.next)) ]
  ELSE st

\* the Device Identity Mapper: st.mapping and st.next after one row's lookup
Resolve(fpga_id, st) ==
  IF fpga_id \notin DOMAIN st.mapping
  THEN [ st EXCEPT !.mapping = st.mapping @@ (fpga_id :> DeviceName(st.next)),
                   !.next = st.next + 1 ]
  ELSE st

\* 'percent' in name, for name = fpga_key + '-' + column: a local device name
\* holds no 'percent', so the column name decides
PercentInName(column) ==
  column \in { "current_pu_utilised_comp_percent", "current_pu_utilised_decomp_percent",
               "avg_pu_utilised_comp_percent", "avg_pu_utilised_decomp_percent",
               "avg_memory_write_transactions_percent",
               "avg_memory_read_transactions_percent",
               "avg_memory_write_denied_percent", "avg_memory_read_denied_percent" }

\* d[k] = v on a dict: the key is added when it is not there yet
SetItem(d, k, v) == [ x \in (DOMAIN d) \cup { k } |-> IF x = k THEN v ELSE d[x] ]

\* value / self.fpga_count on ints (the file's indentation is Python 2 only)
PyDiv(value, n) == PyInt(value.v \div n)

\* data[tot_name] += value
PyAdd(a, b) == PyInt(a.v + b.v)

\* ProcessColumn without the test "if name in self.keys": every column is stored
ProcessColumnUnguarded(column, value, fpga_key, n, ks, st) ==
  LET name     == Join(fpga_key, column)
      tot_name == Join("fpga-total", column)
      d1       == SetItem(st.data, name, value)
  IN IF n > 1
     THEN IF tot_name \notin DOMAIN d1
          THEN [ st EXCEPT !.data = d1, !.raised = TRUE ]
          ELSE [ st EXCEPT !.data = SetItem(d1, tot_name, PyAdd(d1[tot_name], value)) ]
     ELSE [ st EXCEPT !.data = d1 ]

\* the body of the inner loop for one column of one row; st.raised is set by
\* the KeyError of data[tot_name] += ... on a key that was never registered
ProcessColumn(column, value, fpga_key, n, ks, st) ==
  LET name     == Join(fpga_key, column)
      tot_name == Join("fpga-total", column)
  IN IF name \in Range(ks)
     THEN LET d1 == SetItem(st.data, name, value)
          IN IF n > 1
             THEN IF tot_name \notin DOMAIN d1
                  THEN [ st EXCEPT !.data = d1, !.raised = TRUE ]
                  ELSE IF PercentInName(column)
                       THEN [ st EXCEPT !.data =
                                SetItem(d1, tot_name, PyAdd(d1[tot_name], PyDiv(value, n))) ]
                       ELSE [ st EXCEPT !.data =
                                SetItem(d1, tot_name, PyAdd(d1[tot_name], value)) ]
             ELSE [ st EXCEPT !.data = d1 ]
     ELSE st

\* for column in cursor.description, from position i on; stops at a raise
RECURSIVE ProcessColumns(_, _, _, _, _, _, _)
ProcessColumns(i, desc, row, fpga_key, n, ks, st) ==
  IF i > Len(desc) \/ st.raised THEN st
  ELSE ProcessColumns(i + 1, desc, row, fpga_key, n, ks,
                      ProcessColumn(desc[i], row[ColumnIndex(desc, desc[i])],
                                    fpga_key, n, ks, st))

\* for row in result, from row r on; stops at a raise
RECURSIVE ProcessRows(_, _, _, _, _)
ProcessRows(r, res, n, ks, st) ==
  IF r > Len(res.rows) \/ st.raised THEN st
  ELSE LET fpga_id == RowFpgaId(res.description, res.rows[r])
           st1     == Resolve(fpga_id, st)
       IN ProcessRows(r + 1, res, n, ks,
                      ProcessColumns(1, res.description, res.rows[r],
                                     st1.mapping[fpga_id], n, ks, st1))

(* ------------------------------- setup --------------------------------- *)
EmptyDict == [ k \in { } |-> PyInt(0) ]

\* self.temp_power_update_interval = 10 if self.update_every < 10 else self.update_every
UpdateInterval(update_every) == IF update_every < 10 THEN 10 ELSE update_every

\* where a sampling thread starts: at the probe call for idx 0, or, with no
\* device, at the end of an empty iteration
LoopStart(n) == IF n > 0 THEN "probe" ELSE "lag"

\* the state __init__ leaves: the device count is what SELECT COUNT(*) returned,
\* the connection opened for it stays cached, every reading slot holds 0, both
\* sampling threads are started
Setup(vendors, update_everys) ==
  /\ fpga_count \in 0..MaxDevices
  /\ pu_ddr_stats_enable \in BOOLEAN
  /\ check_temp_power \in BOOLEAN
  /\ vendor \in vendors
  /\ temp_power_update_interval \in { UpdateInterval(u) : u \in update_everys }
  /\ order = Registry(fpga_count, pu_ddr_stats_enable, check_temp_power).order
  /\ keys = Registry(fpga_count, pu_ddr_stats_enable, check_temp_power).keys
  /\ default_data = DefaultData(keys)
  /\ conn = 1
  /\ opened = 1
  /\ fpga_mapping = EmptyDict
  /\ next_fpga = 0
  /\ temp = [ i \in 1..fpga_count |-> PyInt(0) ]
  /\ power = [ i \in 1..fpga_count |-> PyInt(0) ]
  /\ pc = "idle"
  /\ os_idx = 0
  /\ data = EmptyDict
  /\ cycle_conn = 0
  /\ result = EmptyResult
  /\ outcome = "none"
  /\ loop_pc = [ k \in { "temp", "power" } |-> LoopStart(fpga_count) ]
  /\ loop_idx = [ k \in { "temp", "power" } |-> 0 ]

\* no time_lag pass and no probe call is being looked at
NoLag == lag_pc = "off" /\ lag_elapsed = 0 /\ lag_wait = 0

NoProbe ==
  /\ probe_func = "off"
  /\ probe_exit = 0
  /\ probe_out = << >>
  /\ probe_pc = "off"
  /\ probe_ret = PyInt(0)

\* the collector on a host with neither vendor tool: no sampling thread ever
\* writes a slot, and get_data is called again and again
Init == Setup({ "none" }, { 1 }) /\ NoLag /\ NoProbe

(* --------------------------- collection cycle -------------------------- *)
\* data = self.default_data without the copy: the cycle writes into the default
DefaultAliased(dflt, written) == written

\* copy.deepcopy(self.default_data): data starts as a copy, so self.default_data
\* is after the cycle what it was before, whatever the cycle wrote into data
DefaultAfterCycle(dflt, written) == dflt

\* an except clause that re-raises without clearing self.conn
ConnKeptAfterRaise(c) == c

\* except Exception: self.conn = None
ConnAfterRaise(c) == 0

\* get_data up to the try block: _connect returns the cached connection or
\* opens one; data starts as the default snapshot
GetDataConnect ==
  /\ pc = "idle"
  /\ conn # 0 \/ opened < MaxHandles
  /\ LET c == IF conn = 0 THEN opened + 1 ELSE conn
     IN /\ conn' = c
        /\ cycle_conn' = c
        /\ opened' = IF conn = 0 THEN opened + 1 ELSE opened
  /\ outcome' = "running"
  /\ data' = default_data
  /\ result' = EmptyResult
  /\ os_idx' = 0
  /\ pc' = IF check_temp_power /\ fpga_count > 0 THEN "os_temp" ELSE "execute"
  /\ UNCHANGED << cfg_vars, other_vars, default_data, map_vars, slot_vars >>

\* psycopg2.connect raises in _connect: outside the try, self.conn stays None
GetDataConnectRaises ==
  /\ pc = "idle"
  /\ conn = 0
  /\ cycle_conn' = 0
  /\ outcome' = "raised"
  /\ data' = EmptyDict
  /\ result' = EmptyResult
  /\ UNCHANGED << cfg_vars, other_vars, default_data, conn, opened, map_vars, slot_vars, pc, os_idx >>

\* self.temp[idx], as set_fpga_os_status reads it
TempReading(idx) == temp[idx + 1]

\* self.power[idx], as set_fpga_os_status reads it
PowerReading(idx) == power[idx + 1]

\* set_fpga_os_status: data[temp_name] = self.temp[idx]
SetFpgaOsStatusTemp ==
  /\ pc = "os_temp"
  /\ data' = SetItem(data, Join(DeviceName(os_idx), "temperature"), TempReading(os_idx))
  /\ pc' = "os_power"
  /\ UNCHANGED << cfg_vars, other_vars, default_data, conn, opened, map_vars, slot_vars, os_idx,
                  cycle_conn, result, outcome >>

\* set_fpga_os_status: data[power_name] = self.power[idx], then the next idx
SetFpgaOsStatusPower ==
  /\ pc = "os_power"
  /\ data' = SetItem(data, Join(DeviceName(os_idx), "power"), PowerReading(os_idx))
  /\ os_idx' = os_idx + 1
  /\ pc' = IF os_idx + 1 < fpga_count THEN "os_temp" ELSE "execute"
  /\ UNCHANGED << cfg_vars, other_vars, default_data, conn, opened, map_vars, slot_vars,
                  cycle_conn, result, outcome >>

\* conn.cursor() or one of the two cursor.execute calls raises
GetDataExecuteRaises ==
  /\ pc = "execute"
  /\ conn' = ConnAfterRaise(conn)
  /\ outcome' = "raised"
  /\ default_data' = DefaultAfterCycle(default_data, data)
  /\ data' = EmptyDict
  /\ pc' = "idle"
  /\ UNCHANGED << cfg_vars, other_vars, opened, map_vars, slot_vars, os_idx, cycle_conn, result >>

\* fetchall and the loop over the rows: return data, or clear self.conn and
\* re-raise when the loop raised
GetDataRows(res) ==
  /\ pc = "execute"
  /\ \E st \in { ProcessRows(1, res, fpga_count, keys,
                            [ data |-> data, mapping |-> fpga_mapping,
                              next |-> next_fpga, raised |-> FALSE ]) } :
        /\ fpga_mapping' = st.mapping
        /\ next_fpga' = st.next
        /\ default_data' = DefaultAfterCycle(default_data, st.data)
        /\ IF st.raised
           THEN /\ conn' = ConnAfterRaise(conn)
                /\ outcome' = "raised"
                /\ data' = EmptyDict
           ELSE /\ conn' = conn
                /\ outcome' = "returned"
                /\ data' = st.data
  /\ result' = res
  /\ pc' = "idle"
  /\ UNCHANGED << cfg_vars, other_vars, opened, slot_vars, os_idx, cycle_conn >>

GetDataFetch == \E res \in ResultSets : GetDataRows(res)

vars == << cfg_vars, default_data, conn, opened, map_vars, slot_vars, pc, os_idx, data,
           cycle_conn, result, outcome, loop_vars, lag_vars,
           probe_vars >>

Next ==
  \/ GetDataConnect
  \/ GetDataConnectRaises
  \/ SetFpgaOsStatusTemp
  \/ SetFpgaOsStatusPower
  \/ GetDataExecuteRaises
  \/ GetDataFetch

Spec == Init /\ [][Next]_vars

(* ----------------------------- vendor probes --------------------------- *)
\* longest command output, in lines, and the lines it is made of: a line is
\* its label text, or "digits" for a line of digits v followed by ws blanks
MaxLines == 2

ProbeLines ==
  { [ text |-> "FPGA Core TEMP", v |-> 42, ws |-> 0 ],
    [ text |-> "Total Input Power", v |-> 7, ws |-> 0 ],
    [ text |-> "FPGA TEMP", v |-> 0, ws |-> 0 ],
    [ text |-> "Card Power", v |-> 0, ws |-> 0 ],
    [ text |-> "digits", v |-> 37, ws |-> 2 ],
    [ text |-> "digits", v |-> 12, ws |-> 0 ],
    [ text |-> "other", v |-> 0, ws |-> 0 ] }

ProbeOutputs == UNION { [ 1..n -> ProbeLines ] : n \in 0..MaxLines }

\* re.match(re_string, line) is not None, for the label patterns: the intel
\* patterns capture the digits after the label, the xilinx ones are the label
LabelMatch(re_string, line) == line.text = re_string

\* re.match(r'^(\d+)\s+', line): digits followed by at least one blank
ValueMatch(line) == line.text = "digits" /\ line.ws > 0

\* the for loop of _parse_intel_fpgainfo from line i on: group(1) of the first
\* matching line; falling off the end of the function returns None
RECURSIVE IntelScan(_, _, _)
IntelScan(i, out, re_string) ==
  IF i > Len(out) THEN PyNone
  ELSE IF LabelMatch(re_string, out[i]) THEN PyStr(out[i].v, 0)
  ELSE IntelScan(i + 1, out, re_string)

\* _parse_intel_fpgainfo: check_output raises CalledProcessError on a non-zero
\* exit status
parse_intel_fpgainfo(exit, out, re_string) ==
  IF exit # 0 THEN PyInt(0) ELSE IntelScan(1, out, re_string)

\* the for loop of _parse_xilinx_fpgainfo from line i on: group(0) of the first
\* value line after a heading; falling off the end returns None
RECURSIVE XilinxScan(_, _, _, _)
XilinxScan(i, out, re_string, fpga_heading_found) ==
  IF i > Len(out) THEN PyNone
  ELSE IF LabelMatch(re_string, out[i]) THEN XilinxScan(i + 1, out, re_string, TRUE)
  ELSE IF ValueMatch(out[i]) /\ fpga_heading_found THEN PyStr(out[i].v, out[i].ws)
  ELSE XilinxScan(i + 1, out, re_string, fpga_heading_found)

\* _parse_xilinx_fpgainfo
parse_xilinx_fpgainfo(exit, out, re_string) ==
  IF exit # 0 THEN PyInt(0) ELSE XilinxScan(1, out, re_string, FALSE)

get_intel_fpga_temp(exit, out) == parse_intel_fpgainfo(exit, out, "FPGA Core TEMP")
get_xilinx_fpga_temp(exit, out) == parse_xilinx_fpgainfo(exit, out, "FPGA TEMP")
get_intel_fpga_power(exit, out) == parse_intel_fpgainfo(exit, out, "Total Input Power")
get_xilinx_fpga_power(exit, out) == parse_xilinx_fpgainfo(exit, out, "Card Power")

ProbeFuncs ==
  { "get_intel_fpga_temp", "get_xilinx_fpga_temp",
    "get_intel_fpga_power", "get_xilinx_fpga_power" }

\* a call of the named probe function on a command that ended with this exit
\* status and output
CallProbe(func, exit, out) ==
  CASE func = "get_intel_fpga_temp" -> get_intel_fpga_temp(exit, out)
    [] func = "get_xilinx_fpga_temp" -> get_xilinx_fpga_temp(exit, out)
    [] func = "get_intel_fpga_power" -> get_intel_fpga_power(exit, out)
    [] func = "get_xilinx_fpga_power" -> get_xilinx_fpga_power(exit, out)

\* self.get_fpga_temp_func / self.get_fpga_power_func as bound in __init__
ProbeFuncOf(vend, kind) ==
  IF kind = "temp"
  THEN (IF vend = "intel" THEN "get_intel_fpga_temp" ELSE "get_xilinx_fpga_temp")
  ELSE (IF vend = "intel" THEN "get_intel_fpga_power" ELSE "get_xilinx_fpga_power")

\* one probe call returns
ProbeCall ==
  /\ probe_pc = "call"
  /\ probe_ret' = CallProbe(probe_func, probe_exit, probe_out)
  /\ probe_pc' = "returned"
  /\ UNCHANGED << cfg_vars, default_data, conn, opened, map_vars, slot_vars, pc, os_idx,
                  data, cycle_conn, result, outcome, loop_vars,
                  lag_vars, probe_func, probe_exit, probe_out >>

\* a setup with no device and no option, for looking at one function alone
BareSetup ==
  /\ Setup({ "none" }, { 1 })
  /\ fpga_count = 0
  /\ ~pu_ddr_stats_enable
  /\ ~check_temp_power

InitProbe ==
  /\ BareSetup
  /\ NoLag
  /\ probe_func \in ProbeFuncs
  /\ probe_exit \in { 0, 1 }
  /\ probe_out \in ProbeOutputs
  /\ probe_pc = "call"
  /\ probe_ret = PyInt(0)

NextProbe == ProbeCall

\* every probe function applied to every command result within the bounds
SpecProbe == InitProbe /\ [][NextProbe]_vars

(* ------------------------------ time_lag ------------------------------- *)
\* largest reporting interval update_every, and longest iteration (after - before)
MaxUpdateEvery == 12
MaxElapsed == 30

\* loop_time = self.temp_power_update_interval - (after - before)
LoopTime(interval, elapsed) == interval - elapsed

\* the argument of the time.sleep call the wrapper makes
SleepArg(interval, elapsed) ==
  IF LoopTime(interval, elapsed) >= 0 THEN LoopTime(interval, elapsed)
  ELSE interval + LoopTime(interval, elapsed)

\* time.sleep raises on a negative argument, which ends the thread
SleepRaises(secs) == secs < 0

\* one pass of "while True" in the wrapper, for an iteration that took e
LagIteration ==
  /\ lag_pc = "run"
  /\ \E e \in 0..MaxElapsed :
       /\ lag_elapsed' = e
       /\ lag_wait' = SleepArg(temp_power_update_interval, e)
       /\ lag_pc' = IF SleepRaises(SleepArg(temp_power_update_interval, e))
                    THEN "dead" ELSE "sleep"
  /\ UNCHANGED << cfg_vars, default_data, conn, opened, map_vars, slot_vars, pc, os_idx,
                  data, cycle_conn, result, outcome, loop_vars,
                  probe_vars >>

\* time.sleep returns and the next pass starts
LagWake ==
  /\ lag_pc = "sleep"
  /\ lag_pc' = "run"
  /\ UNCHANGED << cfg_vars, default_data, conn, opened, map_vars, slot_vars, pc, os_idx,
                  data, cycle_conn, result, outcome, loop_vars,
                  probe_vars, lag_elapsed, lag_wait >>

InitLag ==
  /\ Setup({ "none" }, 1..MaxUpdateEvery)
  /\ fpga_count = 0
  /\ ~pu_ddr_stats_enable
  /\ ~check_temp_power
  /\ NoProbe
  /\ lag_pc = "run"
  /\ lag_elapsed = 0
  /\ lag_wait = 0

NextLag == LagIteration \/ LagWake

\* the wrapper alone, over every interval and iteration time within the bounds
SpecLag == InitLag /\ [][NextLag]_vars

(* ------------------------- properties of a cycle ----------------------- *)
\* get_data has returned a snapshot, which data still holds
Returned == pc = "idle" /\ outcome = "returned"

\* the local device names that setup registered
RegisteredDevices == { DeviceName(i) : i \in 0..(fpga_count - 1) }

\* the rows of the last result set that resolve to the local name dev
RowsOfDevice(dev) ==
  { r \in 1..Len(result.rows) :
      fpga_mapping[RowFpgaId(result.description, result.rows[r])] = dev }

\* the value of column c in row r of the last result set
Cell(r, c) == result.rows[r][ColumnIndex(result.description, c)].v

RECURSIVE SumCells(_, _)
SumCells(rs, c) ==
  IF rs = { } THEN 0
  ELSE LET r == CHOOSE x \in rs : TRUE IN Cell(r, c) + SumCells(rs \ { r }, c)

RECURSIVE SumDevices(_, _)
SumDevices(n, c) ==
  IF n = 0 THEN 0 ELSE data[Join(DeviceName(n - 1), c)].v + SumDevices(n - 1, c)

\* the non-percent columns of the total-eligible templates bytes, jobs and max
TotalColumns ==
  Range(DEFINITIONS.bytes) \cup Range(DEFINITIONS.jobs) \cup Range(DEFINITIONS.max)

\* C1: every snapshot get_data returns has exactly the series keys registered
\* at setup as its keys, whatever rows and columns the query returned.
C1_SnapshotKeysAreRegistered == Returned => DOMAIN data = Range(keys)

\* a snapshot was returned for rows of a device beyond the registered ones and
\* with a column that is no registered key
C1_Witness ==
  /\ Returned
  /\ fpga_count = 1
  /\ ~pu_ddr_stats_enable
  /\ Len(result.rows) = 2
  /\ result.description = << "fpga_id", JobColumn, PercentColumn >>
  /\ next_fpga >= 2

\* C2: with more than one device, fpga-total-c of a returned snapshot is the
\* sum of the snapshot's fpga-<i>-c over the devices, for every non-percent
\* column c of bytes, jobs and max.
C2_TotalIsSumOfDevices ==
  (Returned /\ fpga_count > 1) =>
    \A c \in TotalColumns : data[Join("fpga-total", c)].v = SumDevices(fpga_count, c)

\* C3: with more than one device and extended statistics enabled, a cycle whose
\* rows report a percent-named column returns a snapshot whose total for that
\* column is the mean of the per-device values.
C3_PercentTotalIsMean ==
  ( /\ pc = "idle"
    /\ fpga_count > 1
    /\ pu_ddr_stats_enable
    /\ PercentColumn \in Range(result.description)
    /\ Len(result.rows) > 0 ) =>
  ( /\ outcome = "returned"
    /\ Join("fpga-total", PercentColumn) \in DOMAIN data
    /\ data[Join("fpga-total", PercentColumn)].v * fpga_count
         = SumDevices(fpga_count, PercentColumn) )

\* the position at which raw id x first occurs in the last result set (0: never)
FirstRow(x) ==
  IF \E r \in 1..Len(result.rows) : RowFpgaId(result.description, result.rows[r]) = x
  THEN CHOOSE r \in 1..Len(result.rows) :
         /\ RowFpgaId(result.description, result.rows[r]) = x
         /\ \A q \in 1..(r - 1) : RowFpgaId(result.description, result.rows[q]) # x
  ELSE 0

\* the k of a local name fpga-k
LocalIndex(name) == CHOOSE k \in 0..(MaxRawId + 1) : DeviceName(k) = name

\* the Identity Map names the ids seen so far fpga-0 .. fpga-(next_fpga - 1),
\* one name per id
IdentityMapDense ==
  /\ Cardinality(DOMAIN fpga_mapping) = next_fpga
  /\ { fpga_mapping[x] : x \in DOMAIN fpga_mapping }
       = { DeviceName(k) : k \in 0..(next_fpga - 1) }
  /\ \A x, y \in DOMAIN fpga_mapping : fpga_mapping[x] = fpga_mapping[y] => x = y

\* no entry is removed or renamed, and the ids a cycle adds are numbered after
\* the old ones, in the order of their first rows
IdentityMapGrows ==
  /\ \A x \in DOMAIN fpga_mapping :
       x \in DOMAIN fpga_mapping' /\ fpga_mapping'[x] = fpga_mapping[x]
  /\ \A x \in (DOMAIN fpga_mapping') \ (DOMAIN fpga_mapping) :
       /\ LocalIndex(fpga_mapping'[x]) >= next_fpga
       /\ \A y \in (DOMAIN fpga_mapping') \ (DOMAIN fpga_mapping) :
            LocalIndex(fpga_mapping'[x]) < LocalIndex(fpga_mapping'[y])
              <=> ( FirstRow(x)' # 0 /\ FirstRow(y)' # 0 /\ FirstRow(x)' < FirstRow(y)' )

\* C4: over any sequence of cycles, failing ones included, the Identity Map
\* only grows; a new raw id gets the next local name in first-seen order, a
\* known id keeps its name, and no two ids share a name.
C4_IdentityMapStable == [] IdentityMapDense /\ [][IdentityMapGrows]_vars

\* ids "1", "0", "1" seen in this order: fpga-0, fpga-1, fpga-0
C4_Witness ==
  /\ pc = "idle"
  /\ DOMAIN fpga_mapping = { PyStr(1, 0), PyStr(0, 0) }
  /\ fpga_mapping[PyStr(1, 0)] = "fpga-0"
  /\ fpga_mapping[PyStr(0, 0)] = "fpga-1"
  /\ Len(result.rows) = 2
  /\ RowFpgaId(result.description, result.rows[1]) = PyStr(0, 0)
  /\ RowFpgaId(result.description, result.rows[2]) = PyStr(1, 0)

\* C5: a cycle that raises leaves self.conn cleared, so the next cycle opens a
\* new connection; a cycle that returns leaves it cached, and the next cycle
\* uses the same one.
C5_ReconnectAfterRaise ==
  /\ [] ((pc = "idle" /\ outcome = "raised") => conn = 0)
  /\ [][ (pc = "idle" /\ pc' # "idle") =>
           /\ conn' = cycle_conn'
           /\ outcome = "raised" =>
                (cycle_conn' # cycle_conn /\ cycle_conn' = opened' /\ opened' = opened + 1)
           /\ outcome = "returned" => (cycle_conn' = cycle_conn /\ opened' = opened) ]_vars

\* a cycle runs on a second connection, opened after a cycle that raised
C5_Witness == pc # "idle" /\ cycle_conn = 2 /\ conn = 2

\* the reporting order the registry is described to have
RECURSIVE ExpectedDeviceOrder(_, _, _, _)
ExpectedDeviceOrder(i, n, pu, tp) ==
  IF i >= n THEN << >>
  ELSE [ k \in 1..Len(ExtendMetrics(BaseMetrics, pu, tp)) |->
           Join(DeviceName(i), ExtendMetrics(BaseMetrics, pu, tp)[k]) ]
       \o ExpectedDeviceOrder(i + 1, n, pu, tp)

ExpectedOrder(n, pu, tp) ==
  (IF n > 1 THEN << "fpga-total-bytes", "fpga-total-jobs", "fpga-total-max" >>
   ELSE << >>) \o ExpectedDeviceOrder(0, n, pu, tp)

NoDuplicates(s) == \A i, j \in 1..Len(s) : s[i] = s[j] => i = j

\* C7: the reporting order is the totals (for more than one device) followed,
\* per device in index order, by the enabled metric kinds, each once; no
\* component name and no series key occurs twice.
C7_OrderIsEachKindOnce ==
  /\ order = ExpectedOrder(fpga_count, pu_ddr_stats_enable, check_temp_power)
  /\ NoDuplicates(order)
  /\ NoDuplicates(keys)

\* the keys that the stats query fills: all but the temperature and power keys
DatabaseKeys ==
  { k \in Range(keys) :
      \A i \in 0..(fpga_count - 1) :
        k \notin { Join(DeviceName(i), "temperature"), Join(DeviceName(i), "power") } }

\* C9: the default snapshot stays all zero; a cycle starts from it, leaves a
\* database key at 0 when no row of this cycle's result set supplies it, and
\* makes each total from this cycle's rows alone.
C9_CycleStartsFromZero ==
  /\ default_data = DefaultData(keys)
  /\ pc # "idle" => \A k \in DatabaseKeys : data[k] = PyInt(0)
  /\ Returned =>
       \A c \in TotalColumns \cup { PercentColumn } :
         /\ \A dev \in RegisteredDevices :
              Join(dev, c) \in Range(keys) =>
                ( (c \notin Range(result.description) \/ RowsOfDevice(dev) = { })
                    => data[Join(dev, c)] = PyInt(0) )
         /\ Join("fpga-total", c) \in Range(keys) =>
              data[Join("fpga-total", c)].v =
                IF c \in Range(result.description)
                THEN SumCells(UNION { RowsOfDevice(dev) : dev \in RegisteredDevices }, c)
                ELSE 0

\* a cycle without rows returned after a cycle whose rows had filled the
\* Identity Map
C9_Witness ==
  /\ Returned
  /\ fpga_count > 1
  /\ next_fpga > 1
  /\ result.rows = << >>
  /\ data[Join("fpga-total", JobColumn)] = PyInt(0)

(* --------------------------- sampling threads -------------------------- *)
Kinds == { "temp", "power" }

\* what the command of a probe function may do in the runs that look at the
\* threads: fail, print nothing, or print what the function parses (the xilinx
\* functions run the same command and read different headings of its output)
FewRuns(func) ==
  { [ exit |-> 1, out |-> << >> ],
    [ exit |-> 0, out |-> << >> ],
    [ exit |-> 0,
      out |-> CASE func = "get_intel_fpga_temp" ->
                     << [ text |-> "FPGA Core TEMP", v |-> 42, ws |-> 0 ] >>
                [] func = "get_intel_fpga_power" ->
                     << [ text |-> "Total Input Power", v |-> 7, ws |-> 0 ] >>
                [] OTHER ->
                     << [ text |-> "FPGA TEMP", v |-> 0, ws |-> 0 ],
                        [ text |-> "digits", v |-> 37, ws |-> 2 ],
                        [ text |-> "Card Power", v |-> 0, ws |-> 0 ],
                        [ text |-> "digits", v |-> 12, ws |-> 1 ] >> ] }

\* the step of a sampling thread after the probe call for idx: the next idx,
\* or the end of the iteration
AfterProbe(k) ==
  IF loop_idx[k] + 1 < fpga_count
  THEN /\ loop_idx' = [ loop_idx EXCEPT ![k] = loop_idx[k] + 1 ]
       /\ loop_pc' = loop_pc
  ELSE /\ loop_idx' = loop_idx
       /\ loop_pc' = [ loop_pc EXCEPT ![k] = "lag" ]

\* self.temp[idx] = self.get_fpga_temp_func(idx) in _get_fpga_temp, and
\* self.power[idx] = self.get_fpga_power_func(idx) in _get_fpga_power: the
\* command's exit status and output are the environment's choice
LoopProbeStores(k) ==
  /\ loop_pc[k] = "probe"
  /\ vendor # "none"
  /\ \E run \in FewRuns(ProbeFuncOf(vendor, k)) :
       LET val == CallProbe(ProbeFuncOf(vendor, k), run.exit, run.out)
           i   == loop_idx[k] + 1
       IN IF k = "temp"
          THEN temp' = [ temp EXCEPT ![i] = val ] /\ power' = power
          ELSE power' = [ power EXCEPT ![i] = val ] /\ temp' = temp
  /\ AfterProbe(k)
  /\ UNCHANGED << cfg_vars, default_data, conn, opened, map_vars, pc, os_idx, data,
                  cycle_conn, result, outcome, lag_vars, probe_vars >>

\* with neither vendor tool, __init__ never sets get_fpga_temp_func and
\* get_fpga_power_func: the first call raises AttributeError and ends the thread
LoopProbeUnset(k) ==
  /\ loop_pc[k] = "probe"
  /\ vendor = "none"
  /\ loop_pc' = [ loop_pc EXCEPT ![k] = "dead" ]
  /\ UNCHANGED << cfg_vars, default_data, conn, opened, map_vars, slot_vars, pc, os_idx,
                  data, cycle_conn, result, outcome, loop_idx,
                  lag_vars, probe_vars >>

\* iteration times for the runs that look at the threads: the shortest and the
\* longest
FewElapsed == { 0, MaxElapsed }

\* the end of an iteration in the time_lag wrapper: time.sleep raises and ends
\* the thread, or returns, and the next iteration starts at idx 0
LoopLag(k) ==
  /\ loop_pc[k] = "lag"
  /\ \E e \in FewElapsed :
       loop_pc' = [ loop_pc EXCEPT ![k] =
                      IF SleepRaises(SleepArg(temp_power_update_interval, e))
                      THEN "dead" ELSE LoopStart(fpga_count) ]
  /\ loop_idx' = [ loop_idx EXCEPT ![k] = 0 ]
  /\ UNCHANGED << cfg_vars, default_data, conn, opened, map_vars, slot_vars, pc, os_idx,
                  data, cycle_conn, result, outcome, lag_vars,
                  probe_vars >>

\* columns of the result set named as the suffixes of the temps and powers
\* templates are: the row loop writes them like any other column
TempColumn == "temperature"
PowerColumn == "power"

\* the result sets of the runs that look at the threads: one row of the
\* first device, with a statistics column or with a temperature and a power
\* column
FewResults ==
  { [ description |-> << "fpga_id", JobColumn >>,
      rows |-> RowsOf(<< "fpga_id", JobColumn >>, << PyStr(0, 0) >>) ],
    [ description |-> << "fpga_id", TempColumn, PowerColumn >>,
      rows |-> RowsOf(<< "fpga_id", TempColumn, PowerColumn >>, << PyStr(0, 0) >>) ] }

GetDataFetchFew == \E res \in FewResults : GetDataRows(res)

\* largest device count of the runs that look at the threads
LoopDevices == 2

InitLoops ==
  /\ Setup({ "intel", "xilinx", "none" }, { 1 })
  /\ fpga_count <= LoopDevices
  /\ ~pu_ddr_stats_enable
  /\ NoLag
  /\ NoProbe

NextLoops ==
  \/ GetDataConnect
  \/ GetDataConnectRaises
  \/ SetFpgaOsStatusTemp
  \/ SetFpgaOsStatusPower
  \/ GetDataExecuteRaises
  \/ GetDataFetchFew
  \/ \E k \in Kinds : LoopProbeStores(k)
  \/ \E k \in Kinds : LoopProbeUnset(k)
  \/ \E k \in Kinds : LoopLag(k)

\* get_data interleaved with the two sampling threads
SpecLoops == InitLoops /\ [][NextLoops]_vars

(* ------------------------ properties of the probes --------------------- *)
\* Protocol A: some line of the output matches the label pattern
SomeLabelLine(out, re_string) == \E i \in 1..Len(out) : LabelMatch(re_string, out[i])

\* Protocol B: some heading line is followed, later in the output, by a value line
SomeHeadingThenValue(out, re_string) ==
  \E i, j \in 1..Len(out) : i < j /\ LabelMatch(re_string, out[i]) /\ ValueMatch(out[j])

\* the pattern each probe function passes to its parser
PatternOf(func) ==
  CASE func = "get_intel_fpga_temp" -> "FPGA Core TEMP"
    [] func = "get_xilinx_fpga_temp" -> "FPGA TEMP"
    [] func = "get_intel_fpga_power" -> "Total Input Power"
    [] func = "get_xilinx_fpga_power" -> "Card Power"

Parseable(func, out) ==
  IF func \in { "get_intel_fpga_temp", "get_intel_fpga_power" }
  THEN SomeLabelLine(out, PatternOf(func))
  ELSE SomeHeadingThenValue(out, PatternOf(func))

\* C6: for both protocols, a probe call whose command exits non-zero or whose
\* output holds no matching line returns the zero sentinel.
C6_FailedProbeReturnsZero ==
  (probe_pc = "returned" /\ (probe_exit # 0 \/ ~Parseable(probe_func, probe_out)))
    => probe_ret = PyInt(0)

(* ----------------------- properties of the wrapper --------------------- *)
\* the wait the wrapper is described to make after an iteration that took e
DescribedWait(interval, e) ==
  IF e <= interval THEN interval - e
  ELSE IF e <= 2 * interval THEN 2 * interval - e
  ELSE interval

\* C8: a sampling loop never stops: after an iteration of any duration e it
\* waits a non-negative time, T - e, 2T - e or T according to the overrun, and
\* goes on.
C8_LoopWaitsAndGoesOn ==
  /\ lag_pc # "dead"
  /\ lag_pc = "sleep" =>
       /\ lag_wait >= 0
       /\ lag_wait = DescribedWait(temp_power_update_interval, lag_elapsed)

(* ----------------------- properties of the threads --------------------- *)
TempKey(i) == Join(DeviceName(i), "temperature")
PowerKey(i) == Join(DeviceName(i), "power")

\* what a probe call of this kind can return under the vendor tool found
ProbeValues(k) ==
  IF vendor = "none" THEN { }
  ELSE { CallProbe(ProbeFuncOf(vendor, k), run.exit, run.out) :
           run \in FewRuns(ProbeFuncOf(vendor, k)) }

\* every slot holds the initial 0 or a probe result of its own kind, and so
\* does every temperature and power value of a returned snapshot
ReadingsAreProbeResults ==
  /\ \A i \in 1..fpga_count :
       /\ temp[i] \in { PyInt(0) } \cup ProbeValues("temp")
       /\ power[i] \in { PyInt(0) } \cup ProbeValues("power")
  /\ (Returned /\ check_temp_power) =>
       \A i \in 0..(fpga_count - 1) :
         /\ data[TempKey(i)] \in { PyInt(0) } \cup ProbeValues("temp")
         /\ data[PowerKey(i)] \in { PyInt(0) } \cup ProbeValues("power")

\* a step of the sampling thread k, and a step of get_data
ThreadStep(k) == loop_pc'[k] # loop_pc[k] \/ loop_idx'[k] # loop_idx[k]
CycleStep == pc' # pc \/ outcome' # outcome

\* each thread writes its own array only and get_data writes neither; the
\* value get_data copies is the one the slot holds at that moment of the
\* cycle, and the rest of the cycle leaves the copy alone
ReadingsCopiedAsHeld ==
  /\ ThreadStep("temp") => power' = power
  /\ ThreadStep("power") => temp' = temp
  /\ CycleStep => (temp' = temp /\ power' = power)
  /\ (pc = "os_temp" /\ pc' # pc) => data'[TempKey(os_idx)] = temp[os_idx + 1]
  /\ (pc = "os_power" /\ pc' # pc) => data'[PowerKey(os_idx)] = power[os_idx + 1]
  /\ (pc \in { "os_temp", "os_power", "execute" } /\ outcome' # "raised") =>
       \A i \in 0..(fpga_count - 1) :
         /\ (i < os_idx \/ (pc = "os_power" /\ i = os_idx)) =>
              data'[TempKey(i)] = data[TempKey(i)]
         /\ i < os_idx => data'[PowerKey(i)] = data[PowerKey(i)]

\* C10: under every interleaving of get_data with the two sampling threads,
\* the temperature thread writes only temperature slots, the power thread only
\* power slots, get_data neither; with temperature and power collection
\* enabled, the snapshot's temperature and power of a device are values the
\* device's slots held during the cycle: the initial 0 or a probe result.
C10_ReadingsUnderInterleaving ==
  [] ReadingsAreProbeResults /\ [][ReadingsCopiedAsHeld]_vars

====
